---- MODULE Spec2Model ----
(***************************************************************************)
(* Pico-ROS picoserdes: the generic CDR serialization entry points         *)
(* ps_serialize / ps_deserialize of include/picoserdes.h, over a byte      *)
(* memory, with the per-type routines ps_ser_<T> / ps_des_<T> they         *)
(* dispatch to and the Micro-CDR cursor (ucdrBuffer) those routines use.   *)
(*                                                                         *)
(* Offsets are byte offsets from pBUF.  The caller's buffer is the first   *)
(* MAX bytes of the modelled memory; the bytes from MAX up to MemLen are   *)
(* adjacent memory that belongs to other objects.                          *)
(***************************************************************************)
EXTENDS Integers, Sequences, FiniteSets, TLC

VARIABLES
    buf,        \* the memory at pBUF: MemLen bytes
    enc,        \* the last ps_serialize call on buf (arguments and result), or NoCall
    dec,        \* the last ps_deserialize call on buf (arguments and result), or NoCall
    tampered,   \* whether the transport altered a byte of buf since it was encoded
    identity,   \* the type identity strings: <T>_name and <T>_hash of every entry
    mems,       \* concurrent calls: the byte buffer of each task
    cursors,    \* concurrent calls: the ucdrBuffer objects, by storage slot
    tasks,      \* concurrent calls: each task's call and how far it has run
    clients,    \* the service clients (picoros_srv_client_t) and their requests
    retry,      \* repeated calls on buf: their number and the cursors of the last one
    units       \* the same calls made from a C and from a C++ translation unit

codecVars == <<buf, enc, dec, tampered, identity>>
taskVars == <<mems, cursors, tasks>>
vars == <<buf, enc, dec, tampered, identity, mems, cursors, tasks, clients, retry, units>>

(***************************************************************************)
(* Bounds of the model.                                                    *)
(***************************************************************************)
MemLen == 24        \* bytes of memory at pBUF; MAX ranges over 0..MemLen
NTasks == 2         \* tasks that call the codec concurrently
NClients == 2       \* service clients
MaxReplies == 1     \* replies delivered to one request
MaxCalls == 2       \* calls made one after another on one buffer

(***************************************************************************)
(* Platform.                                                               *)
(***************************************************************************)
\* size_t arithmetic is modulo SizeMod.  The targets have a 32 or 64 bit
\* size_t; the model keeps 16 bits, which leaves MAX - sizeof(uint32_t)
\* wrapping, for MAX < 4, to a size far beyond any modelled memory.
SizeMod == 65536

\* sizeof(uint32_t)
SizeofU32 == 4

\* The bytes an untouched (uninitialised) buffer may hold, and the bytes the
\* transport may write when it alters one.
FillBytes == {85}
CorruptBytes == {0, 65}

NoCall == [type |-> "none"]
NoValue == <<>>

\* The element of a singleton set.  The(S) with S == {F(r) : r \in {e}} is
\* F(e) with e evaluated once.
The(S) == CHOOSE x \in S : TRUE

(***************************************************************************)
(* The type tables.                                                        *)
(***************************************************************************)
\* BASE_TYPES_LIST: the primitive base types with their wire width in bytes;
\* rstring (char*) is the thirteenth base type and has no fixed width.
BaseSize ==
    [bool |-> 1, char |-> 1, int8_t |-> 1, uint8_t |-> 1,
     int16_t |-> 2, uint16_t |-> 2, int32_t |-> 4, uint32_t |-> 4,
     int64_t |-> 8, uint64_t |-> 8, float |-> 4, double |-> 8]

BASE_TYPES_LIST == DOMAIN BaseSize \cup {"rstring"}

\* Members of compound types: FIELD(type, name), ARRAY(type, name, size),
\* SEQUENCE(type, name).
FIELD(type, name) == [card |-> "field", type |-> type, name |-> name, size |-> 1]

\* An array member declared with a count on the wire, as a sequence member is.
ARRAY_AsSequence(type, name, size) ==
    [card |-> "sequence", type |-> type, name |-> name, size |-> size]

ARRAY(type, name, size) == [card |-> "array", type |-> type, name |-> name, size |-> size]
SEQUENCE(type, name) == [card |-> "sequence", type |-> type, name |-> name, size |-> 0]

\* A user type file: the CTYPE entries of MSG_LIST, each with its ordered members.
MSG_LIST ==
    [Blob |-> <<FIELD("uint32_t", "id"), SEQUENCE("uint8_t", "payload")>>,
     Vec  |-> <<FIELD("uint8_t", "tag"), ARRAY("uint16_t", "xs", 2)>>,
     Names |-> <<FIELD("uint8_t", "tag"), ARRAY("rstring", "names", 2)>>]

\* A user type file: the SRV entries of SRV_LIST, each with REQUEST and REPLY members.
\* Echo and Echo2 have the same REQUEST and different REPLYs; Echo and Echo3
\* have the same REPLY and different REQUESTs.
SRV_LIST ==
    [Echo  |-> [request |-> <<FIELD("uint8_t", "a"), FIELD("uint32_t", "b")>>,
                reply   |-> <<FIELD("rstring", "msg")>>],
     Echo2 |-> [request |-> <<FIELD("uint8_t", "a"), FIELD("uint32_t", "b")>>,
                reply   |-> <<FIELD("uint8_t", "code"), FIELD("rstring", "msg")>>],
     Echo3 |-> [request |-> <<FIELD("uint16_t", "n")>>,
                reply   |-> <<FIELD("rstring", "msg")>>]]

\* A user type file: the BTYPE and TTYPE entries of MSG_LIST, each with the
\* type it is a typedef of.
MSG_TYPEDEFS ==
    [Count  |-> [entry |-> "BTYPE", type |-> "uint8_t"],
     Packet |-> [entry |-> "TTYPE", type |-> "Blob"]]

\* The pointer types the _Generic selections list: TYPE*, TYPE_sequence*,
\* request_TYPE*, reply_TYPE*.
MsgPtr(T) == [k |-> "msg", name |-> T]
SeqPtr(T) == [k |-> "seq", name |-> T]
ReqPtr(S) == [k |-> "req", name |-> S]
RepPtr(S) == [k |-> "rep", name |-> S]

(***************************************************************************)
(* Type-directed dispatch.                                                 *)
(***************************************************************************)
\* The pointer type t is: BTYPE_DECLARE makes TYPE a typedef of TYPE2, so
\* TYPE* is TYPE2*; SEQUENCE_DECLARE makes every TYPE_sequence a struct of
\* its own, which no typedef relates to another.
Compatible(t) ==
    IF t.k = "msg" /\ t.name \in DOMAIN MSG_TYPEDEFS
    THEN MsgPtr(MSG_TYPEDEFS[t.name].type)
    ELSE t

\* Every pointer type the type lists declare.
DeclaredPtrTypes ==
    {MsgPtr(T) : T \in BASE_TYPES_LIST \cup DOMAIN MSG_LIST \cup DOMAIN MSG_TYPEDEFS}
        \cup {SeqPtr(T) : T \in BASE_TYPES_LIST \cup DOMAIN MSG_LIST \cup DOMAIN MSG_TYPEDEFS}
        \cup {ReqPtr(S) : S \in DOMAIN SRV_LIST} \cup {RepPtr(S) : S \in DOMAIN SRV_LIST}

\* The routine declared for a pointer type: ps_ser_<T> / ps_des_<T>,
\* ps_ser_sequence_<T>, ps_ser_<S>_request, ps_ser_<S>_reply.  A routine is
\* named by the pointer type it takes.
OwnRoutine(t) == t

\* default: 0
PS_DEFAULT == [k |-> "default", name |-> "0"]

\* The association list of the _Generic selections: BASE_TYPES_LIST through
\* PS_SEL_SER, MSG_LIST with PS_SEL_SER for CTYPE and PS_UNUSED for BTYPE and
\* TTYPE, SRV_LIST through PS_SEL_SRV_SER (the same types with PS_SEL_DES and
\* PS_SEL_SRV_DES).
GenericAssoc ==
    {MsgPtr(T) : T \in BASE_TYPES_LIST \cup DOMAIN MSG_LIST}
        \cup {SeqPtr(T) : T \in BASE_TYPES_LIST \cup DOMAIN MSG_LIST}
        \cup {ReqPtr(S) : S \in DOMAIN SRV_LIST} \cup {RepPtr(S) : S \in DOMAIN SRV_LIST}

\* _Generic((pMSG), ...): the routine of the association whose type is
\* compatible with the type of pMSG, the default when there is none.
Generic(t) ==
    IF Compatible(t) \in GenericAssoc THEN OwnRoutine(Compatible(t)) ELSE PS_DEFAULT

\* The C++ overload sets of ps_serialize and of ps_deserialize: the base
\* types, the CTYPE entries, the requests and replies; no sequence type.
CppOverloads ==
    {MsgPtr(T) : T \in BASE_TYPES_LIST \cup DOMAIN MSG_LIST}
        \cup {ReqPtr(S) : S \in DOMAIN SRV_LIST} \cup {RepPtr(S) : S \in DOMAIN SRV_LIST}

\* Overload resolution for a pointer argument: no conversion relates two
\* object pointer types, so only the overload of the argument's own type is
\* viable.
Overload(t) ==
    IF Compatible(t) \in CppOverloads THEN OwnRoutine(Compatible(t)) ELSE PS_DEFAULT

(***************************************************************************)
(* Primitive CDR byte rules (Micro-CDR): little-endian, native width.      *)
(* A value of width 1, 2 or 4 is a natural number; a value of width 8 is   *)
(* the pair <<low word, high word>>.                                       *)
(***************************************************************************)
RECURSIVE LE(_, _)
LE(v, n) == IF n = 0 THEN <<>> ELSE <<v % 256>> \o LE(v \div 256, n - 1)

RECURSIVE FromLE(_)
FromLE(bs) == IF bs = <<>> THEN 0 ELSE Head(bs) + 256 * FromLE(Tail(bs))

PrimBytes(n, v) == IF n = 8 THEN LE(v[1], 4) \o LE(v[2], 4) ELSE LE(v, n)

PrimValue(n, bs) ==
    IF n = 8 THEN <<FromLE(SubSeq(bs, 1, 4)), FromLE(SubSeq(bs, 5, 8))>>
    ELSE FromLE(bs)

\* One aligned primitive on the wire.
Prim(n, v) == [size |-> n, bytes |-> PrimBytes(n, v)]

(***************************************************************************)
(* The per-type serialization routines: the primitives a value puts on     *)
(* the wire, in order.                                                     *)
(***************************************************************************)
RECURSIVE Chars(_)
Chars(s) == IF s = <<>> THEN <<>> ELSE <<Prim(1, Head(s))>> \o Chars(Tail(s))

\* A string: 32-bit length counting the terminator, the characters, the terminator.
ucdr_serialize_rstring(s) == <<Prim(4, Len(s) + 1)>> \o Chars(s) \o <<Prim(1, 0)>>

RECURSIVE ps_ser(_, _)
RECURSIVE ps_ser_elements(_, _)
RECURSIVE ps_ser_members(_, _)

\* ps_ser_<TYPE>(writer, msg)
ps_ser(T, v) ==
    IF T = "rstring" THEN ucdr_serialize_rstring(v)
    ELSE IF T \in DOMAIN BaseSize THEN <<Prim(BaseSize[T], v)>>
    ELSE ps_ser_members(MSG_LIST[T], v)

\* Elements back to back, no count.
ps_ser_elements(T, vs) ==
    IF vs = <<>> THEN <<>> ELSE ps_ser(T, Head(vs)) \o ps_ser_elements(T, Tail(vs))

\* ps_ser_sequence_<TYPE>(writer, msg): n_elements as a 32-bit count, then the elements.
ps_ser_sequence(T, vs) == <<Prim(4, Len(vs))>> \o ps_ser_elements(T, vs)

\* One member f of the compound value v.
ps_ser_member(f, v) ==
    CASE f.card = "field" -> ps_ser(f.type, v[f.name])
      [] f.card = "array" -> ps_ser_elements(f.type, v[f.name])
      [] f.card = "sequence" -> ps_ser_sequence(f.type, v[f.name])

\* The members written last declared first.
RECURSIVE ps_ser_members_Reversed(_, _)
ps_ser_members_Reversed(fs, v) ==
    IF fs = <<>> THEN <<>>
    ELSE ps_ser_members_Reversed(Tail(fs), v) \o ps_ser_member(Head(fs), v)

\* The members of a compound, in declaration order.
ps_ser_members(fs, v) ==
    IF fs = <<>> THEN <<>>
    ELSE ps_ser_member(Head(fs), v) \o ps_ser_members(Tail(fs), v)

\* A request routine that also writes how many members the paired reply has.
ps_ser_request_WithReply(S, v) ==
    ps_ser_members(SRV_LIST[S].request, v) \o <<Prim(1, Len(SRV_LIST[S].reply))>>

\* ps_ser_<SRV>_request / ps_ser_<SRV>_reply
ps_ser_request(S, v) == ps_ser_members(SRV_LIST[S].request, v)
ps_ser_reply(S, v) == ps_ser_members(SRV_LIST[S].reply, v)

\* The _Generic selection of _ps_serialize: PS_SEL_SER and PS_SEL_SRV_SER.
PS_SEL_SER(t, v) ==
    The({CASE g.k = "msg" -> ps_ser(g.name, v)
           [] g.k = "seq" -> ps_ser_sequence(g.name, v)
           [] g.k = "req" -> ps_ser_request(g.name, v)
           [] g.k = "rep" -> ps_ser_reply(g.name, v) :
         g \in {Generic(t)}})

(***************************************************************************)
(* The Micro-CDR cursor.                                                   *)
(***************************************************************************)
\* ucdr_init_buffer(ub, data, size), with final = data + size already formed.
ucdr_init_buffer(data, final) ==
    [init |-> data, final |-> final, iterator |-> data, error |-> FALSE]

\* data + size as the build forms it.  When the sum leaves the address space
\* the pointer arithmetic is undefined: the build either wraps the pointer or
\* keeps the mathematical sum (the comparison against final folded into a
\* comparison of sizes).
Finals(data, size) ==
    IF data + size < SizeMod THEN {data + size}
    ELSE {(data + size) % SizeMod, data + size}

\* ucdr_buffer_length(ub)
ucdr_buffer_length(ub) == ub.iterator - ub.init

\* Padding that aligns the next primitive of width n, relative to the origin.
ucdr_buffer_alignment(ub, n) == (n - ((ub.iterator - ub.init) % n)) % n

\* Serialize one primitive through the cursor.  st = [ub, mem, wr, fault]:
\* the cursor, the memory, the offsets stored to, and whether a store left
\* the modelled memory (the access traps).
ucdr_serialize(st, item) ==
    LET at == st.ub.iterator + ucdr_buffer_alignment(st.ub, item.size)
        end == at + item.size
    IN  IF st.ub.error \/ end > st.ub.final
        THEN [st EXCEPT !.ub.error = TRUE]
        ELSE IF end > MemLen
        THEN [st EXCEPT !.ub.error = TRUE, !.fault = TRUE]
        ELSE [st EXCEPT
                !.mem = [i \in 1..MemLen |->
                            IF i > at /\ i <= end THEN item.bytes[i - at] ELSE @[i]],
                !.ub.iterator = end,
                !.wr = @ \cup (at..(end - 1))]

RECURSIVE WriteAll(_, _)
WriteAll(st, items) ==
    IF items = <<>> THEN st ELSE WriteAll(ucdr_serialize(st, Head(items)), Tail(items))

(***************************************************************************)
(* The generic serialization macro.                                        *)
(***************************************************************************)
\* The representation identifier: 0x0100.
PS_HEADER == 256

\* The header stored most significant byte first.
HeaderStoreBigEndian(mem) ==
    [i \in 1..MemLen |->
        IF i <= SizeofU32 THEN LE(PS_HEADER, SizeofU32)[SizeofU32 + 1 - i] ELSE mem[i]]

\* *((uint32_t*)pBUF) = 0x0100: a native 32-bit store at offset 0 of a
\* little-endian target.  It is made whatever MAX is.
HeaderStore(mem) ==
    [i \in 1..MemLen |-> IF i <= SizeofU32 THEN LE(PS_HEADER, SizeofU32)[i] ELSE mem[i]]

\* The payload region handed to ucdr_init_buffer: data = pBUF + sizeof(uint32_t),
\* size = MAX - sizeof(uint32_t) in size_t arithmetic.
PayloadData == SizeofU32
PayloadSize(MAX) == (MAX - SizeofU32) % SizeMod

\* The writer placed at pBUF, over the header.
WriterInitAtBuf(final) == ucdr_init_buffer(0, final)

\* ucdr_init_buffer(&writer, pBUF + sizeof(uint32_t), MAX - sizeof(uint32_t))
WriterInit(final) == ucdr_init_buffer(PayloadData, final)

\* The payload length alone, the header not counted.
SerRetPayloadOnly(ub) == ucdr_buffer_length(ub)

\* size_t _ret = ucdr_buffer_length(&writer) + sizeof(uint32_t)
SerRet(ub) == ucdr_buffer_length(ub) + SizeofU32

\* The statements of _ps_serialize from the header store on, the writer
\* being ub when the selected routine is called; ub is the writer on return.
ps_serialize_from(ub, mem, t, v) ==
    The({[mem |-> st.mem, ret |-> SerRet(st.ub), wr |-> st.wr, fault |-> st.fault,
          ub |-> st.ub] :
         st \in {WriteAll([ub |-> ub, mem |-> HeaderStore(mem),
                           wr |-> 0..(SizeofU32 - 1), fault |-> FALSE],
                          PS_SEL_SER(t, v))}})

\* _ps_serialize(pBUF, pMSG, MAX) on memory mem.  The bool the selected
\* routine returns (st.ub.error negated) is not used.
ps_serialize_run(mem, t, v, final) ==
    The({[mem |-> r.mem, ret |-> r.ret, wr |-> r.wr, fault |-> r.fault] :
         r \in {ps_serialize_from(WriterInit(final), mem, t, v)}})

(***************************************************************************)
(* The per-type deserialization routines.  rs = [ub, rd, fault]: the       *)
(* cursor, the offsets loaded from, and whether a load left the modelled   *)
(* memory.  Each routine returns [rs, val]; val is meaningful only while   *)
(* rs.ub.error is FALSE.                                                   *)
(***************************************************************************)
\* Deserialize one primitive of width n through the cursor.
ucdr_deserialize(rs, mem, n) ==
    LET at == rs.ub.iterator + ucdr_buffer_alignment(rs.ub, n)
        end == at + n
        none == IF n = 8 THEN <<0, 0>> ELSE 0
    IN  IF rs.ub.error \/ end > rs.ub.final
        THEN [rs |-> [rs EXCEPT !.ub.error = TRUE], val |-> none]
        ELSE IF end > MemLen
        THEN [rs |-> [rs EXCEPT !.ub.error = TRUE, !.fault = TRUE], val |-> none]
        ELSE [rs |-> [rs EXCEPT !.ub.iterator = end, !.rd = @ \cup (at..(end - 1))],
              val |-> PrimValue(n, SubSeq(mem, at + 1, end))]

RECURSIVE ReadChars(_, _, _, _)
ReadChars(rs, mem, n, acc) ==
    IF n = 0 \/ rs.ub.error THEN [rs |-> rs, val |-> acc]
    ELSE The({ReadChars(r.rs, mem, n - 1,
                        IF r.rs.ub.error THEN acc ELSE Append(acc, r.val)) :
              r \in {ucdr_deserialize(rs, mem, 1)}})

\* A string: the 32-bit length, then that many bytes, the last the terminator.
ucdr_deserialize_rstring(rs, mem) ==
    The({[rs |-> r.rs,
          val |-> IF r.val = <<>> THEN <<>> ELSE SubSeq(r.val, 1, Len(r.val) - 1)] :
         r \in {The({ReadChars(l.rs, mem, l.val, <<>>) :
                     l \in {ucdr_deserialize(rs, mem, 4)}})}})

RECURSIVE ps_des(_, _, _)
RECURSIVE ps_des_elements(_, _, _, _, _)
RECURSIVE ps_des_members(_, _, _, _)

\* The value of a compound from its members' values, in declaration order.
Struct(fs, vals) ==
    [nm \in {fs[i].name : i \in DOMAIN fs} |->
        vals[CHOOSE i \in DOMAIN fs : fs[i].name = nm]]

\* A compound: its members, then the value when none failed.
ps_des_struct(fs, rs, mem) ==
    The({[rs |-> r.rs,
          val |-> IF r.rs.ub.error THEN NoValue ELSE Struct(fs, r.val)] :
         r \in {ps_des_members(fs, rs, mem, <<>>)}})

\* ps_des_<TYPE>(reader, msg)
ps_des(T, rs, mem) ==
    IF T = "rstring" THEN ucdr_deserialize_rstring(rs, mem)
    ELSE IF T \in DOMAIN BaseSize THEN ucdr_deserialize(rs, mem, BaseSize[T])
    ELSE ps_des_struct(MSG_LIST[T], rs, mem)

\* n elements back to back; it stops at the first element that fails.
ps_des_elements(T, n, rs, mem, acc) ==
    IF n = 0 \/ rs.ub.error THEN [rs |-> rs, val |-> acc]
    ELSE The({ps_des_elements(T, n - 1, r.rs, mem,
                              IF r.rs.ub.error THEN acc ELSE Append(acc, r.val)) :
              r \in {ps_des(T, rs, mem)}})

\* ps_des_sequence_<TYPE>(reader, msg): the 32-bit count, then that many elements.
ps_des_sequence(T, rs, mem) ==
    The({ps_des_elements(T, c.val, c.rs, mem, <<>>) :
         c \in {ucdr_deserialize(rs, mem, 4)}})

\* The members of a compound, in declaration order.
ps_des_member(f, rs, mem) ==
    CASE f.card = "field" -> ps_des(f.type, rs, mem)
      [] f.card = "array" -> ps_des_elements(f.type, f.size, rs, mem, <<>>)
      [] f.card = "sequence" -> ps_des_sequence(f.type, rs, mem)

ps_des_members(fs, rs, mem, acc) ==
    IF fs = <<>> \/ rs.ub.error THEN [rs |-> rs, val |-> acc]
    ELSE The({ps_des_members(Tail(fs), r.rs, mem, Append(acc, r.val)) :
              r \in {ps_des_member(Head(fs), rs, mem)}})

\* ps_des_<SRV>_request / ps_des_<SRV>_reply
ps_des_request(S, rs, mem) == ps_des_struct(SRV_LIST[S].request, rs, mem)
ps_des_reply(S, rs, mem) == ps_des_struct(SRV_LIST[S].reply, rs, mem)

\* The _Generic selection of _ps_deserialize: PS_SEL_DES and PS_SEL_SRV_DES.
PS_SEL_DES(t, rs, mem) ==
    The({CASE g.k = "msg" -> ps_des(g.name, rs, mem)
           [] g.k = "seq" -> ps_des_sequence(g.name, rs, mem)
           [] g.k = "req" -> ps_des_request(g.name, rs, mem)
           [] g.k = "rep" -> ps_des_reply(g.name, rs, mem) :
         g \in {Generic(t)}})

(***************************************************************************)
(* The generic deserialization macro.                                      *)
(***************************************************************************)
\* The reader placed at pBUF, the header not skipped.
ReaderInitAtBuf(final) == ucdr_init_buffer(0, final)

\* The reader given MAX, not MAX - sizeof(uint32_t), as the payload size.
ReaderInitWholeMax(final) == ucdr_init_buffer(PayloadData, final + SizeofU32)

\* ucdr_init_buffer(&reader, pBUF + sizeof(uint32_t), MAX - sizeof(uint32_t))
ReaderInit(final) == ucdr_init_buffer(PayloadData, final)

\* bool _ok = <selected routine>(&reader, pMSG); _ok
DesRet(rs) == ~rs.ub.error

\* The call of the selected routine in _ps_deserialize, the reader being ub;
\* ub is the reader on return.
ps_deserialize_from(ub, mem, t) ==
    The({[ok |-> DesRet(r.rs),
          value |-> IF r.rs.ub.error THEN NoValue ELSE r.val,
          rd |-> r.rs.rd, fault |-> r.rs.fault, ub |-> r.rs.ub] :
         r \in {PS_SEL_DES(t, [ub |-> ub, rd |-> {}, fault |-> FALSE], mem)}})

\* _ps_deserialize(pBUF, pMSG, MAX) on memory mem: bytes 0..3 are skipped,
\* never loaded.
ps_deserialize_run(mem, t, final) ==
    The({[ok |-> r.ok, value |-> r.value, rd |-> r.rd, fault |-> r.fault] :
         r \in {ps_deserialize_from(ReaderInit(final), mem, t)}})

(***************************************************************************)
(* Type identity.  TYPE_NAME and TYPE_HASH declare char <T>_name[] and     *)
(* char <T>_hash[] for every entry of MSG_LIST and SRV_LIST; the arrays    *)
(* are objects of the program the calls run in.                            *)
(***************************************************************************)
Identified == DOMAIN MSG_LIST \cup DOMAIN MSG_TYPEDEFS \cup DOMAIN SRV_LIST

\* The identity strings the program may be built with.
IdentityTables ==
    {[T \in Identified |-> [name |-> T, hash |-> h]] : h \in {"RIHS01_a", "RIHS01_b"}}

\* ROSTYPE_NAME(TYPE) / ROSTYPE_HASH(TYPE)
ROSTYPE_NAME(id, T) == id[T].name
ROSTYPE_HASH(id, T) == id[T].hash

\* An encode whose header takes its byte order from the hash strings.
ps_serialize_in_Hashed(id, mem, t, v, final) ==
    The({IF \E T \in Identified : ROSTYPE_HASH(id, T) = "RIHS01_b"
         THEN [r EXCEPT !.mem = HeaderStoreBigEndian(@)]
         ELSE r :
         r \in {ps_serialize_run(mem, t, v, final)}})

\* _ps_serialize / _ps_deserialize in a program whose identity strings are
\* id: neither macro names <T>_name or <T>_hash.
ps_serialize_in(id, mem, t, v, final) == ps_serialize_run(mem, t, v, final)
ps_deserialize_in(id, mem, t, final) == ps_deserialize_run(mem, t, final)

(***************************************************************************)
(* The calls the model makes: the pointer types with the values drawn for  *)
(* each.                                                                   *)
(***************************************************************************)
Blob0 == [id |-> 0, payload |-> <<>>]
Blob7 == [id |-> 7, payload |-> <<1, 2, 3>>]

Vals(t) ==
    CASE t = MsgPtr("uint8_t")  -> {7}
      [] t = MsgPtr("uint16_t") -> {258}
      [] t = MsgPtr("uint32_t") -> {65543}
      [] t = MsgPtr("uint64_t") -> {<<7, 1>>}
      [] t = MsgPtr("rstring")  -> {<<>>, <<97, 98>>}
      [] t = SeqPtr("uint8_t")  -> {<<>>, <<1>>, <<1, 2, 3>>}
      [] t = SeqPtr("uint16_t") -> {<<>>, <<258>>, <<258, 3>>}
      [] t = SeqPtr("rstring")  -> {<<>>, <<<<97>>>>, <<<<97>>, <<>>>>}
      [] t = MsgPtr("Blob")     -> {Blob0, Blob7}
      [] t = SeqPtr("Blob")     -> {<<>>, <<Blob7>>, <<Blob0, Blob0>>}
      [] t = MsgPtr("Vec")      -> {[tag |-> 1, xs |-> <<2, 3>>], [tag |-> 1, xs |-> <<0, 65535>>]}
      [] t = MsgPtr("Names")    -> {[tag |-> 1, names |-> <<<<>>, <<>>>>],
                                    [tag |-> 1, names |-> <<<<97>>, <<>>>>]}
      [] t = MsgPtr("Count")    -> {9}
      [] t = MsgPtr("Packet")   -> {Blob7}
      [] t = ReqPtr("Echo")     -> {[a |-> 5, b |-> 6]}
      [] t = RepPtr("Echo")     -> {[msg |-> <<111, 107>>]}
      [] t = ReqPtr("Echo2")    -> {[a |-> 5, b |-> 6]}
      [] t = RepPtr("Echo2")    -> {[code |-> 1, msg |-> <<111, 107>>]}
      [] t = ReqPtr("Echo3")    -> {[n |-> 258]}
      [] t = RepPtr("Echo3")    -> {[msg |-> <<111, 107>>]}

PtrTypes ==
    {MsgPtr("uint8_t"), MsgPtr("uint16_t"), MsgPtr("uint32_t"), MsgPtr("uint64_t"),
     MsgPtr("rstring"), SeqPtr("uint8_t"), SeqPtr("uint16_t"), SeqPtr("rstring"),
     MsgPtr("Blob"), SeqPtr("Blob"), MsgPtr("Vec"), MsgPtr("Names"),
     MsgPtr("Count"), MsgPtr("Packet"),
     ReqPtr("Echo"), RepPtr("Echo"), ReqPtr("Echo2"), RepPtr("Echo2"),
     ReqPtr("Echo3"), RepPtr("Echo3")}

(***************************************************************************)
(* The state machine.                                                      *)
(***************************************************************************)
Tasks == 1..NTasks

\* A buffer nothing was encoded into.
FreshBuf == CHOOSE m \in {[i \in 1..MemLen |-> b] : b \in FillBytes} : TRUE

\* A task that has made no call.
Idle == [pc |-> "idle"]

Clients == 1..NClients

\* A picoros_srv_client_t after picoros_service_client_init: no request made.
\* queries is the number of this client's requests the session holds, res
\* and seen the last results of picoros_service_call and of
\* picoros_service_call_in_progress, replies and drops the user_callback and
\* drop_callback runs since the last accepted call.
NewClient ==
    [_in_progress |-> FALSE, queries |-> 0, res |-> "none", seen |-> "none",
     replies |-> 0, drops |-> 0]

\* No call made on buf yet.  calls counts the calls made one after another;
\* start and ub are the cursor the last call started from and the one it
\* left behind, before is the memory that call found.
NoRetry == [calls |-> 0, start |-> ucdr_init_buffer(0, 0), ub |-> ucdr_init_buffer(0, 0),
            before |-> <<>>]

Init ==
    /\ buf \in {[i \in 1..MemLen |-> b] : b \in FillBytes}
    /\ enc = NoCall
    /\ dec = NoCall
    /\ tampered = FALSE
    /\ identity \in IdentityTables
    /\ mems = [th \in Tasks |-> FreshBuf]
    /\ cursors = [slot \in 0..NTasks |-> ucdr_init_buffer(0, 0)]
    /\ tasks = [th \in Tasks |-> Idle]
    /\ clients = [c \in Clients |-> NewClient]
    /\ retry = NoRetry
    /\ units = [lang \in {"C", "C++"} |-> [buf |-> buf, ser |-> NoCall, des |-> NoCall]]

\* The sender's call ps_serialize(buf, &v, MAX) for v of pointer type t.
ps_serialize(t, v, MAX) ==
    /\ enc = NoCall
    /\ dec = NoCall
    /\ \E final \in Finals(PayloadData, PayloadSize(MAX)) :
          \E r \in {ps_serialize_in(identity, buf, t, v, final)} :
              /\ buf' = r.mem
              /\ enc' = [type |-> t, value |-> v, max |-> MAX, final |-> final,
                         ret |-> r.ret, wr |-> r.wr, fault |-> r.fault]
    /\ dec' = NoCall
    /\ UNCHANGED tampered
    /\ UNCHANGED identity
    /\ UNCHANGED taskVars
    /\ UNCHANGED clients
    /\ UNCHANGED units
    /\ UNCHANGED retry

\* The receiver's call ps_deserialize(buf, &out, MAX) for out of pointer type t.
ps_deserialize(t, MAX) ==
    /\ dec = NoCall
    /\ \E final \in Finals(PayloadData, PayloadSize(MAX)) :
          \E r \in {ps_deserialize_in(identity, buf, t, final)} :
              dec' = [type |-> t, max |-> MAX, final |-> final, ok |-> r.ok,
                      value |-> r.value, rd |-> r.rd, fault |-> r.fault]
    /\ UNCHANGED <<buf, enc, tampered>>
    /\ UNCHANGED identity
    /\ UNCHANGED taskVars
    /\ UNCHANGED clients
    /\ UNCHANGED units
    /\ UNCHANGED retry

\* The transport alters byte i of an encoded message before the receiver
\* decodes it.  The messages it alters are those encoded with the whole
\* memory as the buffer.
Corrupt(i, b) ==
    /\ enc # NoCall
    /\ enc.max = MemLen
    /\ dec = NoCall
    /\ ~tampered
    /\ buf[i] # b
    /\ buf' = [buf EXCEPT ![i] = b]
    /\ tampered' = TRUE
    /\ dec' = NoCall
    /\ UNCHANGED enc
    /\ UNCHANGED identity
    /\ UNCHANGED taskVars
    /\ UNCHANGED clients
    /\ UNCHANGED units
    /\ UNCHANGED retry

\* The receiver decodes as the type the sender encoded; a buffer nothing was
\* encoded into is decoded as any type.
Receivable == IF enc = NoCall THEN PtrTypes ELSE {enc.type}

Next ==
    \/ \E t \in PtrTypes, MAX \in 0..MemLen : \E v \in Vals(t) : ps_serialize(t, v, MAX)
    \/ \E t \in Receivable, MAX \in 0..MemLen : ps_deserialize(t, MAX)
    \/ \E i \in 1..MemLen, b \in CorruptBytes : Corrupt(i, b)

Spec == Init /\ [][Next]_vars

TypeOK ==
    /\ DOMAIN buf = 1..MemLen
    /\ \A i \in 1..MemLen : buf[i] \in 0..255
    /\ tampered \in BOOLEAN
    /\ enc # NoCall => enc.max \in 0..MemLen /\ enc.wr \subseteq 0..(MemLen - 1)
    /\ dec # NoCall => dec.max \in 0..MemLen /\ dec.rd \subseteq 0..(MemLen - 1)

(***************************************************************************)
(* What the claims speak about.                                            *)
(***************************************************************************)
\* The offset one past the last primitive when items are laid out from off.
RECURSIVE EndOf(_, _)
EndOf(off, items) ==
    IF items = <<>> THEN off
    ELSE LET n == Head(items).size
         IN  EndOf(off + ((n - (off % n)) % n) + n, Tail(items))

\* The bytes the full encoding of v needs: the header plus the payload.
FullLen(t, v) == SizeofU32 + EndOf(0, PS_SEL_SER(t, v))

\* The last ps_serialize call had room for the whole encoding.
Fits == enc.max >= FullLen(enc.type, enc.value)

\* The representation identifier as it lies in memory.
HeaderBytes == <<0, 1, 0, 0>>

\* The 32-bit little-endian word at byte offset off of buf.
WordAt(off) == FromLE(SubSeq(buf, off + 1, off + 4))

\* The least number of wire bytes one element of type T takes.
MinElem(T) ==
    IF T = "rstring" THEN 4
    ELSE IF T \in DOMAIN BaseSize THEN BaseSize[T]
    ELSE 8

(***************************************************************************)
(* C1.  Round trip: when ps_serialize had room for the whole encoding of a *)
(* value and ps_deserialize is called on the bytes it produced, with the   *)
(* same MAX and for the same type, ps_deserialize returns success and the  *)
(* value it yields equals the value encoded.                               *)
(***************************************************************************)
C1_RoundTrip ==
    (/\ enc # NoCall /\ dec # NoCall /\ ~tampered
     /\ dec.type = enc.type /\ dec.max = enc.max /\ Fits)
    => (dec.ok /\ dec.value = enc.value)

C1_Witness ==
    /\ enc # NoCall /\ dec # NoCall /\ ~tampered
    /\ enc.type = RepPtr("Echo") /\ dec.type = enc.type
    /\ dec.max = enc.max /\ Fits
    /\ dec.ok /\ dec.value = enc.value

(***************************************************************************)
(* C2.  Header validation: ps_deserialize returns failure, and loads no    *)
(* payload byte, whenever the first 4 bytes of the buffer are not the      *)
(* representation identifier or the buffer is shorter than 4 bytes.        *)
(***************************************************************************)
C2_HeaderValidated ==
    (dec # NoCall /\ (dec.max < SizeofU32 \/ SubSeq(buf, 1, 4) # HeaderBytes))
    => (~dec.ok /\ dec.rd = {})

(***************************************************************************)
(* C3.  Encode envelope: after every ps_serialize call bytes 0..3 of the   *)
(* buffer are 00 01 00 00, and the first primitive of the payload, when    *)
(* any payload byte was stored, lies at offset 4.                          *)
(***************************************************************************)
C3_Envelope ==
    (enc # NoCall /\ ~tampered)
    => /\ SubSeq(buf, 1, 4) = HeaderBytes
       /\ 0..3 \subseteq enc.wr
       /\ (enc.wr \ (0..3)) # {} =>
             LET first == Head(PS_SEL_SER(enc.type, enc.value))
             IN  /\ 4..(3 + first.size) \subseteq enc.wr
                 /\ SubSeq(buf, 5, 4 + first.size) = first.bytes

C3_Witness ==
    /\ enc # NoCall /\ ~tampered
    /\ enc.type = MsgPtr("uint16_t")
    /\ enc.wr = 0..5
    /\ SubSeq(buf, 1, 6) = <<0, 1, 0, 0, 2, 1>>

(***************************************************************************)
(* C4.  Overflow is reported: when MAX is smaller than the full encoding   *)
(* needs, the value ps_serialize returns is not the size of any            *)
(* successfully encoded message of that type.                              *)
(***************************************************************************)
C4_OverflowReported ==
    (enc # NoCall /\ ~Fits)
    => \A v \in Vals(enc.type) : enc.ret # FullLen(enc.type, v)

(***************************************************************************)
(* C5.  Encode stays in bounds: ps_serialize stores to no offset >= MAX.   *)
(***************************************************************************)
C5_WritesInBounds == enc # NoCall => \A o \in enc.wr : o < enc.max

(***************************************************************************)
(* C6.  Decode stays in bounds: ps_deserialize loads from no offset >= MAX.*)
(***************************************************************************)
C6_ReadsInBounds == dec # NoCall => \A o \in dec.rd : o < dec.max

(***************************************************************************)
(* C7.  Underflow detection: ps_deserialize on a successfully encoded      *)
(* buffer with a capacity smaller than the size ps_serialize returned      *)
(* returns failure.                                                        *)
(***************************************************************************)
C7_Underflow ==
    (/\ enc # NoCall /\ dec # NoCall /\ ~tampered
     /\ dec.type = enc.type /\ Fits /\ dec.max < enc.ret)
    => ~dec.ok

(***************************************************************************)
(* C8.  Sequence count check: when the 32-bit count of a sequence (a       *)
(* top-level sequence, or the sequence member of a compound) asks for more *)
(* bytes than remain in the payload region handed to the decode routine,   *)
(* the decode returns failure.                                             *)
(***************************************************************************)
\* The offset of the count and the element type of the sequence decoded last.
CountAt == IF dec.type.k = "seq" THEN 4 ELSE 8
CountElem == IF dec.type.k = "seq" THEN dec.type.name ELSE "uint8_t"

C8_CountChecked ==
    (/\ dec # NoCall
     /\ (dec.type.k = "seq" \/ dec.type = MsgPtr("Blob"))
     /\ dec.final >= CountAt + 4
     /\ WordAt(CountAt) > (dec.final - (CountAt + 4)) \div MinElem(CountElem))
    => ~dec.ok

C8_Witness ==
    /\ dec # NoCall /\ enc # NoCall /\ tampered
    /\ dec.type = MsgPtr("Blob") /\ enc.value = Blob7
    /\ dec.max = MemLen
    /\ WordAt(8) = 65
    /\ ~dec.ok

(***************************************************************************)
(* C9.  Concrete wire layout: ps_serialize of {id = 7, payload = [1,2,3]}  *)
(* of the compound (uint32 id, sequence of uint8 payload) returns 15 and   *)
(* leaves the 4 header bytes, 07 00 00 00, 03 00 00 00, 01 02 03 in the    *)
(* buffer; ps_deserialize of those 15 bytes succeeds and yields the same   *)
(* value, with 3 elements.                                                 *)
(***************************************************************************)
C9_Layout ==
    (/\ enc # NoCall /\ ~tampered
     /\ enc.type = MsgPtr("Blob") /\ enc.value = [id |-> 7, payload |-> <<1, 2, 3>>]
     /\ enc.max >= 15)
    => /\ enc.ret = 15
       /\ SubSeq(buf, 1, 15) = <<0, 1, 0, 0, 7, 0, 0, 0, 3, 0, 0, 0, 1, 2, 3>>
       /\ (dec # NoCall /\ dec.max = 15) =>
             /\ dec.ok
             /\ dec.value = [id |-> 7, payload |-> <<1, 2, 3>>]
             /\ Len(dec.value.payload) = 3

C9_Witness ==
    /\ enc # NoCall /\ ~tampered /\ dec # NoCall
    /\ enc.type = MsgPtr("Blob") /\ enc.value = Blob7 /\ enc.max = 15 /\ enc.ret = 15
    /\ dec.max = 15 /\ dec.ok /\ dec.value.id = 7

(***************************************************************************)
(* C10.  Sequence round trip: when a sequence value was encoded with room  *)
(* for the whole encoding, decoding it with a capacity that holds the      *)
(* encoded bytes succeeds, the decoded n_elements equals the encoded one   *)
(* and the elements are equal at every index.                              *)
(***************************************************************************)
C10_SequenceRoundTrip ==
    (/\ enc # NoCall /\ dec # NoCall /\ ~tampered
     /\ enc.type.k = "seq" /\ dec.type = enc.type
     /\ Fits /\ dec.max >= enc.ret)
    => /\ dec.ok
       /\ Len(dec.value) = Len(enc.value)
       /\ \A i \in 1..Len(enc.value) : dec.value[i] = enc.value[i]

C10_Witness ==
    /\ enc # NoCall /\ dec # NoCall /\ ~tampered
    /\ enc.type = SeqPtr("rstring") /\ dec.type = enc.type
    /\ Len(enc.value) = 2 /\ Fits /\ dec.max = enc.ret
    /\ dec.ok /\ Len(dec.value) = 2 /\ dec.value[1] = <<97>> /\ dec.value[2] = <<>>

(***************************************************************************)
(* Fixed arrays.  The compounds whose last member is an ARRAY, the member, *)
(* and the offsets ps_serialize stored that member's elements to.          *)
(***************************************************************************)
ArrayTypes == {MsgPtr("Vec"), MsgPtr("Names")}

ArrayMember(t) == MSG_LIST[t.name][Len(MSG_LIST[t.name])]

\* The offsets of the header and of the members declared before the array.
BeforeArray(t, v) ==
    0..(SizeofU32 - 1 +
        EndOf(0, ps_ser_members(SubSeq(MSG_LIST[t.name], 1, Len(MSG_LIST[t.name]) - 1), v)))

\* The bytes of primitives laid end to end.
RECURSIVE Flat(_)
Flat(items) == IF items = <<>> THEN <<>> ELSE Head(items).bytes \o Flat(Tail(items))

\* The bytes of buf at the offsets of S, in ascending order.
RECURSIVE BytesAt(_)
BytesAt(S) ==
    IF S = {} THEN <<>>
    ELSE LET o == CHOOSE x \in S : \A y \in S : x <= y
         IN  <<buf[o + 1]>> \o BytesAt(S \ {o})

\* The offsets the last ps_serialize stored the array member to, and the
\* offsets the last ps_deserialize loaded it from.
ArrayWr == enc.wr \ BeforeArray(enc.type, enc.value)
ArrayRd == dec.rd \ BeforeArray(enc.type, enc.value)

\* The number of bytes the elements of the array member take when the value is v.
ArrayLen(t, v) ==
    Len(Flat(ps_ser_elements(ArrayMember(t).type, v[ArrayMember(t).name])))

\* The array member holds its N elements and nothing else, and a decode of
\* the encoded bytes loads exactly the bytes the encode stored.
ArrayElementsOnly ==
    /\ Len(enc.value[ArrayMember(enc.type).name]) = ArrayMember(enc.type).size
    /\ BytesAt(ArrayWr) =
          Flat(ps_ser_elements(ArrayMember(enc.type).type,
                               enc.value[ArrayMember(enc.type).name]))
    /\ (dec # NoCall /\ dec.type = enc.type /\ dec.max = enc.max)
          => (dec.ok /\ ArrayRd = ArrayWr)

(***************************************************************************)
(* C11.  Fixed-array exactness: a member declared ARRAY(T, name, N) is     *)
(* encoded as exactly N elements of T back to back with no length prefix,  *)
(* the number of wire bytes it occupies is the same for every content of   *)
(* the array, and decoding consumes exactly the same bytes.                *)
(***************************************************************************)
C11_ArrayExact ==
    (enc # NoCall /\ ~tampered /\ enc.type \in ArrayTypes /\ Fits)
    => /\ ArrayElementsOnly
       /\ \A v \in Vals(enc.type) : Cardinality(ArrayWr) = ArrayLen(enc.type, v)

(***************************************************************************)
(* C11 as amended.  A member declared ARRAY(T, name, N) is encoded as      *)
(* exactly N elements of T back to back with no length prefix and decoding *)
(* consumes exactly the same bytes; when T is a fixed-width base type the  *)
(* member occupies N * sizeof(T) wire bytes whatever the array holds.      *)
(***************************************************************************)
C11_ArrayExactFixedWidth ==
    (enc # NoCall /\ ~tampered /\ enc.type \in ArrayTypes /\ Fits)
    => /\ ArrayElementsOnly
       /\ ArrayMember(enc.type).type \in DOMAIN BaseSize
            => Cardinality(ArrayWr) =
                  ArrayMember(enc.type).size * BaseSize[ArrayMember(enc.type).type]

C11_Witness ==
    /\ enc # NoCall /\ dec # NoCall /\ ~tampered
    /\ enc.type = MsgPtr("Vec") /\ enc.value.xs = <<0, 65535>> /\ Fits
    /\ dec.type = enc.type /\ dec.max = enc.max /\ dec.ok
    /\ ArrayWr = 6..9 /\ ArrayRd = 6..9

(***************************************************************************)
(* Compounds.  The declared members of a compound pointer type and where   *)
(* the encoding of each member ends.                                       *)
(***************************************************************************)
CompoundTypes ==
    {MsgPtr(T) : T \in DOMAIN MSG_LIST}
        \cup {ReqPtr(S) : S \in DOMAIN SRV_LIST} \cup {RepPtr(S) : S \in DOMAIN SRV_LIST}

Fields(t) ==
    CASE t.k = "msg" -> MSG_LIST[t.name]
      [] t.k = "req" -> SRV_LIST[t.name].request
      [] t.k = "rep" -> SRV_LIST[t.name].reply

\* The primitives of the first i declared members of v, member by member.
RECURSIVE MemberItems(_, _, _)
MemberItems(fs, v, i) ==
    IF i = 0 THEN <<>> ELSE MemberItems(fs, v, i - 1) \o ps_ser_member(fs[i], v)

\* The offset one past member i of the value encoded last (the header for i = 0).
MemberEnd(i) == SizeofU32 + EndOf(0, MemberItems(Fields(enc.type), enc.value, i))

\* The stored offsets that lie in the place of member i.
MemberWr(i) == enc.wr \cap (MemberEnd(i - 1)..(MemberEnd(i) - 1))

(***************************************************************************)
(* C12.  Positional compound encoding: the encode routine of a compound    *)
(* (CTYPE, service request, service reply) writes the members in the order *)
(* they are declared, member i wholly before member i+1, with no name or   *)
(* tag between or after them, and the decode routine reads them in the     *)
(* same order.                                                             *)
(***************************************************************************)
C12_Positional ==
    (enc # NoCall /\ ~tampered /\ enc.type \in CompoundTypes /\ Fits)
    => \A fs \in {Fields(enc.type)} :
           /\ \A i \in 1..Len(fs) :
                 BytesAt(MemberWr(i)) = Flat(ps_ser_member(fs[i], enc.value))
           /\ enc.ret = MemberEnd(Len(fs))
           /\ Cardinality(enc.wr) =
                 SizeofU32 + Len(Flat(MemberItems(fs, enc.value, Len(fs))))
           /\ (dec # NoCall /\ dec.type = enc.type /\ dec.max = enc.max)
                 => /\ dec.ok
                    /\ dec.rd = enc.wr \ (0..(SizeofU32 - 1))
                    /\ \A i \in 1..Len(fs) :
                          dec.value[fs[i].name] = enc.value[fs[i].name]

C12_Witness ==
    /\ enc # NoCall /\ dec # NoCall /\ ~tampered
    /\ enc.type = ReqPtr("Echo") /\ Fits
    /\ dec.type = enc.type /\ dec.max = enc.max /\ dec.ok
    /\ MemberWr(1) = {4} /\ MemberWr(2) = 8..11
    /\ dec.value.a = 5 /\ dec.value.b = 6

(***************************************************************************)
(* Dispatch alone: a translation unit, C or C++, names ps_serialize or     *)
(* ps_deserialize with a pointer of a declared type and the compiler       *)
(* resolves the routine.  enc and dec hold the last resolution of each     *)
(* entry point; a resolution of PS_DEFAULT is a call the build rejects.    *)
(***************************************************************************)
Languages == {"C", "C++"}

Resolve(t, lang) == IF lang = "C" THEN Generic(t) ELSE Overload(t)

ResolveSer(t, lang) ==
    /\ enc' = [type |-> t, lang |-> lang, sel |-> Resolve(t, lang)]
    /\ UNCHANGED <<buf, dec, tampered>>
    /\ UNCHANGED identity
    /\ UNCHANGED taskVars
    /\ UNCHANGED clients
    /\ UNCHANGED units
    /\ UNCHANGED retry

ResolveDes(t, lang) ==
    /\ dec' = [type |-> t, lang |-> lang, sel |-> Resolve(t, lang)]
    /\ UNCHANGED <<buf, enc, tampered>>
    /\ UNCHANGED identity
    /\ UNCHANGED taskVars
    /\ UNCHANGED clients
    /\ UNCHANGED units
    /\ UNCHANGED retry

NextDispatch ==
    \/ \E t \in DeclaredPtrTypes, lang \in Languages : ResolveSer(t, lang)
    \/ \E t \in DeclaredPtrTypes, lang \in Languages : ResolveDes(t, lang)

SpecDispatch == Init /\ [][NextDispatch]_vars

(***************************************************************************)
(* C13.  Dispatch is total and exact: for a pointer to a value of every    *)
(* declared type (base type, BTYPE, CTYPE, TTYPE), of every <T>_sequence   *)
(* type and of every request_<S> / reply_<S> type, ps_serialize and        *)
(* ps_deserialize resolve to that type's own routine, never to the default *)
(* branch and never to another type's routine.                             *)
(***************************************************************************)
C13_DispatchExact ==
    /\ enc # NoCall => enc.sel = OwnRoutine(enc.type)
    /\ dec # NoCall => dec.sel = OwnRoutine(dec.type)

(***************************************************************************)
(* Services.  The twins of a request (reply) pointer type: the request     *)
(* (reply) types of the services declared with the same REQUEST (REPLY)    *)
(* members and other REPLY (REQUEST) members.                              *)
(***************************************************************************)
Twins(t) ==
    CASE t.k = "req" ->
            {ReqPtr(S) : S \in {X \in DOMAIN SRV_LIST :
                                    /\ SRV_LIST[X].request = SRV_LIST[t.name].request
                                    /\ SRV_LIST[X].reply # SRV_LIST[t.name].reply}}
      [] t.k = "rep" ->
            {RepPtr(S) : S \in {X \in DOMAIN SRV_LIST :
                                    /\ SRV_LIST[X].reply = SRV_LIST[t.name].reply
                                    /\ SRV_LIST[X].request # SRV_LIST[t.name].request}}
      [] OTHER -> {}

\* The memory ps_serialize was called on: a buffer nothing was encoded into.
FreshBufs == {[i \in 1..MemLen |-> b] : b \in FillBytes}

(***************************************************************************)
(* C14.  Request/reply independence: the bytes and the result of encoding  *)
(* or decoding a request_<S> value are what they are under a service       *)
(* declared with the same REQUEST members and other REPLY members, and the *)
(* other way round for a reply_<S> value.                                  *)
(***************************************************************************)
C14_Independent ==
    /\ (enc # NoCall /\ ~tampered /\ enc.type.k \in {"req", "rep"})
          => \A t2 \in Twins(enc.type) : \E mem \in FreshBufs :
                \E r \in {ps_serialize_run(mem, t2, enc.value, enc.final)} :
                    /\ buf = r.mem
                    /\ enc.ret = r.ret
                    /\ enc.wr = r.wr
    /\ (dec # NoCall /\ dec.type.k \in {"req", "rep"})
          => \A t2 \in Twins(dec.type) :
                \E r \in {ps_deserialize_run(buf, t2, dec.final)} :
                    /\ dec.ok = r.ok
                    /\ dec.value = r.value
                    /\ dec.rd = r.rd

C14_Witness ==
    /\ enc # NoCall /\ dec # NoCall /\ ~tampered
    /\ enc.type = ReqPtr("Echo2") /\ dec.type = enc.type
    /\ Twins(enc.type) = {ReqPtr("Echo")}
    /\ Fits /\ dec.max = enc.max /\ dec.ok /\ dec.value = [a |-> 5, b |-> 6]
    /\ enc.ret = 12

(***************************************************************************)
(* Concurrent calls.  Each task makes one ps_serialize or ps_deserialize   *)
(* call on its own buffer mems[th] with its own value; the calls of the    *)
(* tasks interleave between any two accesses to a cursor.  A call is:      *)
(* the header store (encode only) and ucdr_init_buffer; the primitives of  *)
(* the selected routine, one access each; the read of the result.          *)
(***************************************************************************)
\* The capacity the tasks pass.
ConcMax == 8

\* The types a task decodes have a layout that no byte of the buffer
\* decides: the widths of their primitives, in order.
ConcDesTypes == {MsgPtr("uint16_t"), ReqPtr("Echo")}
ConcSerTypes == ConcDesTypes \cup {SeqPtr("uint8_t")}

\* The values the tasks pass: one of each type, the longest drawn.
ConcVals(t) == {v \in Vals(t) : \A w \in Vals(t) : FullLen(t, w) <= FullLen(t, v)}

Widths(t) ==
    LET items == PS_SEL_SER(t, CHOOSE v \in Vals(t) : TRUE)
    IN  [i \in DOMAIN items |-> items[i].size]

\* The ucdrBuffer of every call held in one static object.
StaticCursor(th) == 0

\* ucdrBuffer writer = {}; / ucdrBuffer reader = {}; an automatic object of
\* the statement expression, one per call.
LocalCursor(th) == th

\* The buffer a decoding task is handed: the encoding of v.
Encoded(t, v) ==
    ps_serialize_run(FreshBuf, t, v, The(Finals(PayloadData, PayloadSize(MemLen)))).mem

\* The task enters ps_serialize(mems[th], &v, ConcMax).
CallSerialize(th, t, v) ==
    /\ tasks[th] = Idle
    /\ tasks' = [tasks EXCEPT ![th] =
                    [pc |-> "init", op |-> "ser", type |-> t, value |-> v,
                     todo |-> PS_SEL_SER(t, v), acc |-> {}, got |-> <<>>,
                     fault |-> FALSE, ret |-> 0, during |-> {}]]
    /\ UNCHANGED <<mems, cursors>>
    /\ UNCHANGED codecVars
    /\ UNCHANGED clients
    /\ UNCHANGED units
    /\ UNCHANGED retry

\* The task enters ps_deserialize(mems[th], &out, ConcMax) on a buffer that
\* holds the encoding of v.
CallDeserialize(th, t, v) ==
    /\ tasks[th] = Idle
    /\ mems' = [mems EXCEPT ![th] = Encoded(t, v)]
    /\ tasks' = [tasks EXCEPT ![th] =
                    [pc |-> "init", op |-> "des", type |-> t, value |-> v,
                     todo |-> Widths(t), acc |-> {}, got |-> <<>>,
                     fault |-> FALSE, ret |-> FALSE, during |-> {}]]
    /\ UNCHANGED cursors
    /\ UNCHANGED codecVars
    /\ UNCHANGED clients
    /\ UNCHANGED units
    /\ UNCHANGED retry

\* The tasks whose call has begun and has not returned.
Running == {o \in Tasks : tasks[o].pc = "run"}

\* The header store and ucdr_init_buffer of the call; during records the
\* calls that were running when this one began.
Begin(th) ==
    /\ tasks[th].pc = "init"
    /\ \E final \in Finals(PayloadData, PayloadSize(ConcMax)) :
          IF tasks[th].op = "ser"
          THEN /\ mems' = [mems EXCEPT ![th] = HeaderStore(@)]
               /\ cursors' = [cursors EXCEPT ![LocalCursor(th)] = WriterInit(final)]
               /\ tasks' = [tasks EXCEPT ![th].pc = "run",
                                          ![th].acc = 0..(SizeofU32 - 1),
                                          ![th].during = Running]
          ELSE /\ cursors' = [cursors EXCEPT ![LocalCursor(th)] = ReaderInit(final)]
               /\ tasks' = [tasks EXCEPT ![th].pc = "run", ![th].during = Running]
               /\ UNCHANGED mems
    /\ UNCHANGED codecVars
    /\ UNCHANGED clients
    /\ UNCHANGED units
    /\ UNCHANGED retry

\* The next primitive of the selected routine, through the call's cursor.
Step(th) ==
    /\ tasks[th].pc = "run"
    /\ tasks[th].todo # <<>>
    /\ IF tasks[th].op = "ser"
       THEN \E st \in {ucdr_serialize([ub |-> cursors[LocalCursor(th)], mem |-> mems[th],
                                        wr |-> tasks[th].acc, fault |-> tasks[th].fault],
                                       Head(tasks[th].todo))} :
               /\ mems' = [mems EXCEPT ![th] = st.mem]
               /\ cursors' = [cursors EXCEPT ![LocalCursor(th)] = st.ub]
               /\ tasks' = [tasks EXCEPT ![th].todo = Tail(@), ![th].acc = st.wr,
                                          ![th].fault = st.fault]
       ELSE \E r \in {ucdr_deserialize([ub |-> cursors[LocalCursor(th)],
                                         rd |-> tasks[th].acc, fault |-> tasks[th].fault],
                                        mems[th], Head(tasks[th].todo))} :
               /\ cursors' = [cursors EXCEPT ![LocalCursor(th)] = r.rs.ub]
               /\ tasks' = [tasks EXCEPT ![th].todo = Tail(@), ![th].acc = r.rs.rd,
                                          ![th].fault = r.rs.fault,
                                          ![th].got = Append(@, r.val)]
               /\ UNCHANGED mems
    /\ UNCHANGED codecVars
    /\ UNCHANGED clients
    /\ UNCHANGED units
    /\ UNCHANGED retry

\* The result of the call, read from the call's cursor.
Return(th) ==
    /\ tasks[th].pc = "run"
    /\ tasks[th].todo = <<>>
    /\ tasks' = [tasks EXCEPT
                    ![th].pc = "done",
                    ![th].ret = IF tasks[th].op = "ser"
                                THEN SerRet(cursors[LocalCursor(th)])
                                ELSE DesRet([ub |-> cursors[LocalCursor(th)]])]
    /\ UNCHANGED <<mems, cursors>>
    /\ UNCHANGED codecVars
    /\ UNCHANGED clients
    /\ UNCHANGED units
    /\ UNCHANGED retry

NextConc ==
    \/ \E th \in Tasks, t \in ConcSerTypes : \E v \in ConcVals(t) : CallSerialize(th, t, v)
    \/ \E th \in Tasks, t \in ConcDesTypes : \E v \in ConcVals(t) : CallDeserialize(th, t, v)
    \/ \E th \in Tasks : Begin(th)
    \/ \E th \in Tasks : Step(th)
    \/ \E th \in Tasks : Return(th)

SpecConc == Init /\ [][NextConc]_vars

\* What the call of a finished task gives when it runs alone.
AloneSer(th) ==
    ps_serialize_run(FreshBuf, tasks[th].type, tasks[th].value,
                     The(Finals(PayloadData, PayloadSize(ConcMax))))
AloneDes(th) ==
    ps_deserialize_run(Encoded(tasks[th].type, tasks[th].value), tasks[th].type,
                       The(Finals(PayloadData, PayloadSize(ConcMax))))

\* The primitives the finished decode of a task yielded, as primitives of the wire.
GotItems(th) ==
    [i \in DOMAIN tasks[th].got |-> Prim(Widths(tasks[th].type)[i], tasks[th].got[i])]

(***************************************************************************)
(* C15.  Concurrent calls on disjoint data do not interfere: when the      *)
(* calls of several tasks run interleaved, each on its own buffer and      *)
(* value, every finished call has produced the output bytes, the output    *)
(* value and the result it produces when run alone.                        *)
(***************************************************************************)
C15_NoInterference ==
    \A th \in Tasks :
        /\ tasks[th] = Idle => mems[th] = FreshBuf
        /\ (tasks[th].pc = "done" /\ tasks[th].op = "ser")
              => \E r \in {AloneSer(th)} :
                    /\ mems[th] = r.mem
                    /\ tasks[th].ret = r.ret
                    /\ tasks[th].acc = r.wr
        /\ (tasks[th].pc = "done" /\ tasks[th].op = "des")
              => \E r \in {AloneDes(th)} :
                    /\ mems[th] = Encoded(tasks[th].type, tasks[th].value)
                    /\ tasks[th].ret = r.ok
                    /\ tasks[th].acc = r.rd
                    /\ r.ok => GotItems(th) = PS_SEL_SER(tasks[th].type, r.value)

\* A decode that began while an encode was running, both finished.
C15_Witness ==
    /\ tasks[1].pc = "done" /\ tasks[1].op = "ser" /\ tasks[1].type = MsgPtr("uint16_t")
    /\ tasks[2].pc = "done" /\ tasks[2].op = "des" /\ tasks[2].type = MsgPtr("uint16_t")
    /\ tasks[2].during = {1}
    /\ tasks[1].ret = 6 /\ tasks[2].ret = TRUE /\ tasks[2].got = <<258>>
    /\ mems[1] = mems[2]

(***************************************************************************)
(* C16.  Type identity is immutable and unused by the codec: no            *)
(* ps_serialize or ps_deserialize call changes a name or hash string, and  *)
(* the bytes, the value and the result of every call are what they are in  *)
(* a program built with any other name and hash strings.                   *)
(***************************************************************************)
IdentityUnused ==
    /\ (enc # NoCall /\ ~tampered)
          => \A id2 \in IdentityTables :
                \E r \in {ps_serialize_in(id2, FreshBuf, enc.type, enc.value, enc.final)} :
                    /\ buf = r.mem
                    /\ enc.ret = r.ret
                    /\ enc.wr = r.wr
    /\ dec # NoCall
          => \A id2 \in IdentityTables :
                \E r \in {ps_deserialize_in(id2, buf, dec.type, dec.final)} :
                    /\ dec.ok = r.ok
                    /\ dec.value = r.value
                    /\ dec.rd = r.rd

C16_IdentityImmutableUnused ==
    /\ [][identity' = identity]_vars
    /\ []IdentityUnused

C16_Witness ==
    /\ enc # NoCall /\ dec # NoCall /\ ~tampered
    /\ enc.type = MsgPtr("Blob") /\ dec.type = enc.type /\ Fits /\ dec.ok
    /\ ROSTYPE_NAME(identity, "Blob") = "Blob"
    /\ ROSTYPE_HASH(identity, "Blob") = "RIHS01_b"

(***************************************************************************)
(* The service client of picoros.h.  A request is started by               *)
(* picoros_service_call, may be answered by replies (user_callback) and    *)
(* completes when the session drops it (drop_callback).                    *)
(***************************************************************************)
\* A call that starts a request whether or not one is in progress.
picoros_service_call_Unguarded(c) ==
    /\ clients' = [clients EXCEPT ![c]._in_progress = TRUE, ![c].queries = @ + 1,
                                   ![c].res = "PICOROS_OK",
                                   ![c].replies = 0, ![c].drops = 0]
    /\ clients[c].queries < 2
    /\ UNCHANGED <<codecVars, taskVars>>
    /\ UNCHANGED units
    /\ UNCHANGED retry

\* picoros_service_call(client, payload, len): PICOROS_NOT_READY while a
\* request is in progress; otherwise the request is started (PICOROS_OK), or
\* the session refuses it (PICOROS_ERROR) and nothing is in progress.
picoros_service_call(c) ==
    /\ \/ /\ clients[c]._in_progress
          /\ clients' = [clients EXCEPT ![c].res = "PICOROS_NOT_READY"]
       \/ /\ ~clients[c]._in_progress
          /\ clients' = [clients EXCEPT ![c]._in_progress = TRUE, ![c].queries = @ + 1,
                                         ![c].res = "PICOROS_OK",
                                         ![c].replies = 0, ![c].drops = 0]
       \/ /\ ~clients[c]._in_progress
          /\ clients' = [clients EXCEPT ![c].res = "PICOROS_ERROR"]
    /\ UNCHANGED <<codecVars, taskVars>>
    /\ UNCHANGED units
    /\ UNCHANGED retry

\* picoros_service_call_in_progress(client)
picoros_service_call_in_progress(c) ==
    /\ clients' = [clients EXCEPT ![c].seen = IF clients[c]._in_progress THEN "true" ELSE "false"]
    /\ UNCHANGED <<codecVars, taskVars>>
    /\ UNCHANGED units
    /\ UNCHANGED retry

\* A reply to the request arrives: user_callback runs.
Reply(c) ==
    /\ clients[c].queries > 0
    /\ clients[c].replies < MaxReplies
    /\ clients' = [clients EXCEPT ![c].replies = @ + 1]
    /\ UNCHANGED <<codecVars, taskVars>>
    /\ UNCHANGED units
    /\ UNCHANGED retry

\* The session drops the request: drop_callback runs and the call is complete.
Drop(c) ==
    /\ clients[c].queries > 0
    /\ clients' = [clients EXCEPT ![c].queries = @ - 1, ![c].drops = @ + 1,
                                   ![c]._in_progress = FALSE]
    /\ UNCHANGED <<codecVars, taskVars>>
    /\ UNCHANGED units
    /\ UNCHANGED retry

NextClient ==
    \/ \E c \in Clients : picoros_service_call(c)
    \/ \E c \in Clients : picoros_service_call_in_progress(c)
    \/ \E c \in Clients : Reply(c)
    \/ \E c \in Clients : Drop(c)

SpecClient == Init /\ [][NextClient]_vars

\* The step is a picoros_service_call on c / a picoros_service_call_in_progress on c.
IsCall(c) == clients'[c].res # clients[c].res \/ clients'[c].queries > clients[c].queries
IsQuery(c) == clients'[c].seen # clients[c].seen

RECURSIVE BeforeFailure(_, _, _)
BeforeFailure(items, off, max) ==
    IF items = <<>> THEN {}
    ELSE LET n == Head(items).size
             at == off + ((n - (off % n)) % n)
         IN  IF SizeofU32 + at + n > max THEN {}
             ELSE ((SizeofU32 + at)..(SizeofU32 + at + n - 1))
                      \cup BeforeFailure(Tail(items), at + n, max)

(***************************************************************************)
(* C18.  Encode stops at the first failure: when a field or element of the *)
(* value does not fit in the remaining capacity, ps_serialize stores no    *)
(* byte of any later field or element, and the failure is reported: the    *)
(* value returned is not the size of a successfully encoded message.       *)
(* Stated for MAX >= 4, where the remaining capacity MAX - 4 is defined.   *)
(***************************************************************************)
C18_StopsAndReports ==
    (enc # NoCall /\ ~Fits /\ enc.max >= SizeofU32)
    => /\ enc.wr \ (0..(SizeofU32 - 1)) =
             BeforeFailure(PS_SEL_SER(enc.type, enc.value), 0, enc.max)
       /\ \A v \in Vals(enc.type) : enc.ret # FullLen(enc.type, v)

(***************************************************************************)
(* Calls made one after another on one buffer.  The writer and the reader  *)
(* are locals of the statement expression: each call declares its cursor,  *)
(* zero-initialized, and sets it with ucdr_init_buffer before the selected *)
(* routine runs.  left is the cursor the previous call left behind.        *)
(***************************************************************************)
RetryTypes == {SeqPtr("uint8_t"), MsgPtr("rstring"), ReqPtr("Echo")}
RetryMax == {0, 3, 4, 8, 9, MemLen}

\* A cursor that keeps the error flag of the previous call.
CallCursorKeepsError(left, data, final) ==
    [ucdr_init_buffer(data, final) EXCEPT !.error = left.error]

\* ucdrBuffer writer = {}; ucdr_init_buffer(&writer, data, size)
CallCursor(left, data, final) == ucdr_init_buffer(data, final)

RetrySerialize(t, v, MAX) ==
    /\ retry.calls < MaxCalls
    /\ \E final \in Finals(PayloadData, PayloadSize(MAX)) :
          \E ub \in {CallCursor(retry.ub, PayloadData, final)} :
              \E r \in {ps_serialize_from(ub, buf, t, v)} :
                  /\ buf' = r.mem
                  /\ enc' = [type |-> t, value |-> v, max |-> MAX, final |-> final,
                             ret |-> r.ret, wr |-> r.wr, fault |-> r.fault]
                  /\ retry' = [calls |-> retry.calls + 1, start |-> ub, ub |-> r.ub,
                               before |-> buf]
    /\ dec' = NoCall
    /\ UNCHANGED tampered
    /\ UNCHANGED identity
    /\ UNCHANGED taskVars
    /\ UNCHANGED clients
    /\ UNCHANGED units

RetryDeserialize(t, MAX) ==
    /\ retry.calls < MaxCalls
    /\ \E final \in Finals(PayloadData, PayloadSize(MAX)) :
          \E ub \in {CallCursor(retry.ub, PayloadData, final)} :
              \E r \in {ps_deserialize_from(ub, buf, t)} :
                  /\ dec' = [type |-> t, max |-> MAX, final |-> final, ok |-> r.ok,
                             value |-> r.value, rd |-> r.rd, fault |-> r.fault]
                  /\ retry' = [calls |-> retry.calls + 1, start |-> ub, ub |-> r.ub,
                               before |-> buf]
    /\ enc' = NoCall
    /\ UNCHANGED <<buf, tampered>>
    /\ UNCHANGED identity
    /\ UNCHANGED taskVars
    /\ UNCHANGED clients
    /\ UNCHANGED units

NextRetry ==
    \/ \E t \in RetryTypes, MAX \in RetryMax : \E v \in Vals(t) : RetrySerialize(t, v, MAX)
    \/ \E t \in RetryTypes, MAX \in RetryMax : RetryDeserialize(t, MAX)

SpecRetry == Init /\ [][NextRetry]_vars

\* The last call was a retry: calls were made on the buffer before it.
Retried == retry.calls >= 2

(***************************************************************************)
(* C19.  Retry safety: after any sequence of ps_serialize/ps_deserialize   *)
(* calls on a buffer, a further call with capacity MAX starts from a fresh *)
(* cursor at offset 4 with capacity MAX - 4 and no error, reads and writes *)
(* only inside [0, MAX), and gives the result the same call gives when it  *)
(* is the first one made on the memory it found.                           *)
(***************************************************************************)
C19_RetrySafe ==
    Retried =>
        /\ retry.start = [init |-> SizeofU32, iterator |-> SizeofU32, error |-> FALSE,
                          final |-> SizeofU32 +
                                    (The({c.max : c \in {enc, dec} \ {NoCall}}) - SizeofU32)]
        /\ enc # NoCall =>
              /\ enc.wr \subseteq 0..(enc.max - 1)
              /\ \E r \in {ps_serialize_in(identity, retry.before, enc.type, enc.value,
                                           enc.final)} :
                    /\ enc.ret = r.ret
                    /\ enc.wr = r.wr
                    /\ buf = r.mem
        /\ dec # NoCall =>
              /\ dec.rd \subseteq 0..(dec.max - 1)
              /\ \E r \in {ps_deserialize_in(identity, retry.before, dec.type, dec.final)} :
                    /\ dec.ok = r.ok
                    /\ dec.value = r.value
                    /\ dec.rd = r.rd

(***************************************************************************)
(* The returned size.                                                      *)
(***************************************************************************)
\* The payload offsets the selected routine stored to.
PayloadWr == enc.wr \ (0..(SizeofU32 - 1))

\* One past the last offset of S.
EndOfSet(S) == IF S = {} THEN 0 ELSE (CHOOSE x \in S : \A y \in S : y <= x) + 1

\* The bounds of the returned size, and what it is to the receiver of a
\* message that was encoded whole: the loads of a successful decode end at
\* it, and a decode with a capacity below it fails.
SizeBoundsAndNeed ==
    /\ enc.ret >= SizeofU32
    /\ enc.max >= SizeofU32 => enc.ret <= enc.max
    /\ (Fits /\ dec # NoCall /\ ~tampered) =>
          /\ dec.ok => EndOfSet(dec.rd) = enc.ret
          /\ dec.max >= SizeofU32 => (dec.ok <=> dec.max >= enc.ret)

(***************************************************************************)
(* C20.  Returned size accounting, as stated: the value ps_serialize       *)
(* returns is 4 plus the number of payload bytes the routine stored, so it *)
(* is at least 4 and, when MAX >= 4, at most MAX; on success it is the     *)
(* exact number of leading bytes ps_deserialize needs.                     *)
(***************************************************************************)
C20_SizeIsBytesWritten ==
    enc # NoCall =>
        /\ enc.ret = SizeofU32 + Cardinality(PayloadWr)
        /\ SizeBoundsAndNeed

(***************************************************************************)
(* C20, amended.  The value ps_serialize returns is 4 plus the length of   *)
(* the cursor, which counts the payload bytes stored and the alignment     *)
(* padding skipped before them: it is one past the last byte stored.  It   *)
(* is at least 4 and, when MAX >= 4, at most MAX; on success it is the     *)
(* exact number of leading bytes ps_deserialize needs.                     *)
(***************************************************************************)
C20_SizeIsCursorLength ==
    enc # NoCall =>
        /\ enc.ret = EndOfSet(enc.wr)
        /\ enc.ret >= SizeofU32 + Cardinality(PayloadWr)
        /\ SizeBoundsAndNeed

\* A message with padding was encoded whole, and decoded with the returned
\* size as the capacity.
C20_Witness ==
    /\ enc # NoCall /\ Fits /\ ~tampered
    /\ enc.ret > SizeofU32 + Cardinality(PayloadWr)
    /\ dec # NoCall /\ dec.ok /\ dec.max = enc.ret
    /\ dec.value = enc.value

(***************************************************************************)
(* The C++ entry points.  Under __cplusplus the macros are undefined and   *)
(* ps_serialize / ps_deserialize are overloaded inline functions, one per  *)
(* base type, CTYPE entry, request and reply, each with a body of its own. *)
(***************************************************************************)
\* The representation identifier the overloads store: 0x0100.
PS_CPP_HEADER == 256

\* *((uint32_t*)pBUF) = 0x0100 in the body of an overload.
CppHeaderStore(mem) ==
    [i \in 1..MemLen |-> IF i <= SizeofU32 THEN LE(PS_CPP_HEADER, SizeofU32)[i] ELSE mem[i]]

\* The size MAX - sizeof(uint32_t) an overload hands to ucdr_init_buffer, in
\* size_t arithmetic.
CppPayloadSize(MAX) == (MAX - SizeofU32) % SizeMod

\* The sum data + size is formed inside ucdr_init_buffer, a function of the
\* Micro-CDR library that the C and the C++ callers of one program share:
\* when the sum overflows, the library as built either wraps it or keeps it.
UcdrBuilds == {"wraps", "keeps"}
ucdr_final(build, data, size) ==
    IF build = "wraps" THEN (data + size) % SizeMod ELSE data + size

\* PS_CPP_SER_OVERLOAD(TYPE): ps_ser_<TYPE>(&writer, pMSG), then
\* return ucdr_buffer_length(&writer) + sizeof(uint32_t).
PS_CPP_SER_OVERLOAD(T, mem, v, final) ==
    The({[mem |-> st.mem, ret |-> ucdr_buffer_length(st.ub) + SizeofU32,
          wr |-> st.wr, fault |-> st.fault] :
         st \in {WriteAll([ub |-> ucdr_init_buffer(SizeofU32, final),
                           mem |-> CppHeaderStore(mem),
                           wr |-> 0..(SizeofU32 - 1), fault |-> FALSE],
                          ps_ser(T, v))}})

\* PS_CPP_SRV_SER_OVERLOAD(TYPE): the overloads for request_<TYPE>* and for
\* reply_<TYPE>*.
PS_CPP_SRV_SER_OVERLOAD(S, k, mem, v, final) ==
    The({[mem |-> st.mem, ret |-> ucdr_buffer_length(st.ub) + SizeofU32,
          wr |-> st.wr, fault |-> st.fault] :
         st \in {WriteAll([ub |-> ucdr_init_buffer(SizeofU32, final),
                           mem |-> CppHeaderStore(mem),
                           wr |-> 0..(SizeofU32 - 1), fault |-> FALSE],
                          IF k = "req" THEN ps_ser_request(S, v)
                                       ELSE ps_ser_reply(S, v))}})

\* PS_CPP_DES_OVERLOAD(TYPE): return ps_des_<TYPE>(&reader, pMSG).
PS_CPP_DES_OVERLOAD(T, mem, final) ==
    The({[ok |-> ~r.rs.ub.error,
          value |-> IF r.rs.ub.error THEN NoValue ELSE r.val,
          rd |-> r.rs.rd, fault |-> r.rs.fault] :
         r \in {ps_des(T, [ub |-> ucdr_init_buffer(SizeofU32, final), rd |-> {},
                           fault |-> FALSE], mem)}})

\* PS_CPP_SRV_DES_OVERLOAD(TYPE): the overloads for request_<TYPE>* and for
\* reply_<TYPE>*.
PS_CPP_SRV_DES_OVERLOAD(S, k, mem, final) ==
    The({[ok |-> ~r.rs.ub.error,
          value |-> IF r.rs.ub.error THEN NoValue ELSE r.val,
          rd |-> r.rs.rd, fault |-> r.rs.fault] :
         r \in {IF k = "req"
                THEN ps_des_request(S, [ub |-> ucdr_init_buffer(SizeofU32, final),
                                        rd |-> {}, fault |-> FALSE], mem)
                ELSE ps_des_reply(S, [ub |-> ucdr_init_buffer(SizeofU32, final),
                                      rd |-> {}, fault |-> FALSE], mem)}})

\* The call ps_serialize(pBUF, pMSG, MAX) of a C++ translation unit, pMSG of
\* pointer type t: the overload resolution selects the function.
cpp_ps_serialize(mem, t, v, final) ==
    The({IF o.k = "msg" THEN PS_CPP_SER_OVERLOAD(o.name, mem, v, final)
                        ELSE PS_CPP_SRV_SER_OVERLOAD(o.name, o.k, mem, v, final) :
         o \in {Overload(t)}})

\* The call ps_deserialize(pBUF, pMSG, MAX) of a C++ translation unit.
cpp_ps_deserialize(mem, t, final) ==
    The({IF o.k = "msg" THEN PS_CPP_DES_OVERLOAD(o.name, mem, final)
                        ELSE PS_CPP_SRV_DES_OVERLOAD(o.name, o.k, mem, final) :
         o \in {Overload(t)}})

\* The pointer types both entry points accept.
CommonTypes == {t \in PtrTypes : Generic(t) # PS_DEFAULT /\ Overload(t) # PS_DEFAULT}

\* The entry point of each language on memory mem.
EntrySer(lang, mem, t, v, MAX, build) ==
    IF lang = "C"
    THEN ps_serialize_run(mem, t, v, ucdr_final(build, PayloadData, PayloadSize(MAX)))
    ELSE cpp_ps_serialize(mem, t, v, ucdr_final(build, SizeofU32, CppPayloadSize(MAX)))

EntryDes(lang, mem, t, MAX, build) ==
    IF lang = "C"
    THEN ps_deserialize_run(mem, t, ucdr_final(build, PayloadData, PayloadSize(MAX)))
    ELSE cpp_ps_deserialize(mem, t, ucdr_final(build, SizeofU32, CppPayloadSize(MAX)))

(***************************************************************************)
(* A C and a C++ translation unit make the same calls, each on its own     *)
(* copy of the buffer, linked with the same Micro-CDR library.             *)
(***************************************************************************)
UnitsSerialize(t, v, MAX) ==
    /\ \A lang \in Languages : units[lang].ser = NoCall /\ units[lang].des = NoCall
    /\ \E build \in UcdrBuilds :
          units' = [lang \in Languages |->
                       The({[buf |-> r.mem,
                             ser |-> [type |-> t, value |-> v, max |-> MAX,
                                      ret |-> r.ret, wr |-> r.wr, fault |-> r.fault],
                             des |-> NoCall] :
                            r \in {EntrySer(lang, units[lang].buf, t, v, MAX, build)}})]
    /\ UNCHANGED <<codecVars, taskVars>>
    /\ UNCHANGED clients
    /\ UNCHANGED retry

\* Both units decode as the type they encoded; a buffer nothing was encoded
\* into is decoded as any type.
UnitsDeserialize(t, MAX) ==
    /\ \A lang \in Languages :
          /\ units[lang].des = NoCall
          /\ units[lang].ser # NoCall => units[lang].ser.type = t
    /\ \E build \in UcdrBuilds :
          units' = [lang \in Languages |->
                       The({[units[lang] EXCEPT
                                !.des = [type |-> t, max |-> MAX, ok |-> r.ok,
                                         value |-> r.value, rd |-> r.rd,
                                         fault |-> r.fault]] :
                            r \in {EntryDes(lang, units[lang].buf, t, MAX, build)}})]
    /\ UNCHANGED <<codecVars, taskVars>>
    /\ UNCHANGED clients
    /\ UNCHANGED retry

NextUnits ==
    \/ \E t \in CommonTypes, MAX \in 0..MemLen : \E v \in Vals(t) : UnitsSerialize(t, v, MAX)
    \/ \E t \in CommonTypes, MAX \in 0..MemLen : UnitsDeserialize(t, MAX)

SpecUnits == Init /\ [][NextUnits]_vars

(***************************************************************************)
(* C21.  C and C++ entry points agree: for every type both accept and      *)
(* every value, buffer and capacity, the C++ overloads of ps_serialize and *)
(* ps_deserialize give the same buffer bytes, the same returned size and   *)
(* the same success flag (and the same decoded value) as the C macros.     *)
(***************************************************************************)
C21_EntryPointsAgree ==
    /\ units["C"].buf = units["C++"].buf
    /\ units["C"].ser # NoCall => units["C"].ser.ret = units["C++"].ser.ret
    /\ units["C"].des # NoCall =>
          /\ units["C"].des.ok = units["C++"].des.ok
          /\ units["C"].des.value = units["C++"].des.value

\* Both units encoded a request whole and decoded it, and the encoding is
\* more than the header.
C21_Witness ==
    \A lang \in Languages :
        /\ units[lang].ser # NoCall /\ units[lang].ser.type = ReqPtr("Echo")
        /\ units[lang].ser.ret = FullLen(ReqPtr("Echo"), units[lang].ser.value)
        /\ units[lang].ser.max >= units[lang].ser.ret
        /\ units[lang].des # NoCall /\ units[lang].des.ok
        /\ units[lang].des.value = units[lang].ser.value

\* The units made a call with a capacity below the header size and the
\* library kept the overflowing end: the payload was stored past MAX.
C21_WitnessSmall ==
    \A lang \in Languages :
        /\ units[lang].ser # NoCall /\ units[lang].ser.max < SizeofU32
        /\ units[lang].ser.ret > SizeofU32

====
